---- MODULE Spec2Model ----
(***************************************************************************)
(* A model of claude_export_converter.py: the conversion of a JSON export  *)
(* of chat conversations into one Markdown transcript per conversation.    *)
(*                                                                         *)
(* Python strings are sequences of one-character strings, so that the      *)
(* character-level work of sanitize_filename, os.path.splitext and the     *)
(* f-strings is computed and not assumed.  JSON values are tagged records. *)
(* A Python call either returns (Ok) or raises (Raise).                    *)
(***************************************************************************)
EXTENDS Integers, Sequences, FiniteSets, TLC

VARIABLES
    pc,                 \* where convert_conversations_to_md stands
    input_file,         \* what open()/json.load() of json_file_path gives
    dir_exists,         \* os.path.exists(output_dir)
    fs,                 \* the files of output_dir: path -> sequence of writes
    data,               \* the parsed JSON root
    conversations,      \* the conversation list (a sequence of JSON values)
    i,                  \* enumerate() index, 0-based
    title,              \* local title (a JSON value: whatever the record held)
    sanitized_title,    \* local sanitized_title
    md_filename,        \* local md_filename
    original_filename,  \* local original_filename
    counter,            \* local counter
    out,                \* the console: the sequence of print() calls
    opened,             \* the log of successful open(md_filename, 'w') calls
    exc                 \* the exception that left the function, or "none"

vars == <<pc, input_file, dir_exists, fs, data, conversations, i, title,
          sanitized_title, md_filename, original_filename, counter, out, opened, exc>>

----------------------------------------------------------------------------
(* Bounds of the model.                                                    *)

\* the longest conversation list of an input
MaxConvs == 2
\* the longest title drawn for the sanitize_filename specification
MaxTitleLen == 3

----------------------------------------------------------------------------
(* Python strings.                                                         *)

Min(a, b) == IF a < b THEN a ELSE b

\* s[:n]
Take(s, n) == SubSeq(s, 1, Min(n, Len(s)))

\* s[n:]  (n is 1-based here: the suffix starting at position n)
Drop(s, n) == SubSeq(s, n, Len(s))

RECURSIVE Repeat(_, _)
Repeat(c, n) == IF n = 0 THEN <<>> ELSE <<c>> \o Repeat(c, n - 1)

RECURSIVE Concat(_)
Concat(ss) == IF ss = <<>> THEN <<>> ELSE Head(ss) \o Concat(Tail(ss))

\* sep.join(parts)
RECURSIVE Join(_, _)
Join(sep, parts) ==
    IF parts = <<>> THEN <<>>
    ELSE IF Len(parts) = 1 THEN parts[1]
    ELSE parts[1] \o sep \o Join(sep, Tail(parts))

\* needle in haystack, for two strings
IsSubstring(needle, hay) ==
    \E k \in 0..(Len(hay) - Len(needle)) :
        SubSeq(hay, k + 1, k + Len(needle)) = needle

\* s.strip(chars)
Strip(s, chars) ==
    LET keep == {k \in 1..Len(s) : s[k] \notin chars}
    IN  IF keep = {} THEN <<>>
        ELSE LET lo == CHOOSE k \in keep : \A m \in keep : k <= m
                 hi == CHOOSE k \in keep : \A m \in keep : m <= k
             IN  SubSeq(s, lo, hi)

Digits == <<"0", "1", "2", "3", "4", "5", "6", "7", "8", "9">>

\* str(n) of an int
RECURSIVE NatToStr(_)
NatToStr(n) ==
    IF n < 10 THEN <<Digits[n + 1]>>
    ELSE NatToStr(n \div 10) \o <<Digits[(n % 10) + 1]>>

IntToStr(n) == IF n < 0 THEN <<"-">> \o NatToStr(0 - n) ELSE NatToStr(n)

Lowers == <<"a", "b", "c", "d", "e", "f", "g", "h", "i", "j", "k", "l", "m",
            "n", "o", "p", "q", "r", "s", "t", "u", "v", "w", "x", "y", "z">>
Uppers == <<"A", "B", "C", "D", "E", "F", "G", "H", "I", "J", "K", "L", "M",
            "N", "O", "P", "Q", "R", "S", "T", "U", "V", "W", "X", "Y", "Z">>

Upper(c) ==
    IF \E k \in 1..26 : Lowers[k] = c
    THEN Uppers[CHOOSE k \in 1..26 : Lowers[k] = c] ELSE c

Lower(c) ==
    IF \E k \in 1..26 : Uppers[k] = c
    THEN Lowers[CHOOSE k \in 1..26 : Uppers[k] = c] ELSE c

\* s.capitalize()
Capitalize(s) ==
    [k \in 1..Len(s) |-> IF k = 1 THEN Upper(s[k]) ELSE Lower(s[k])]

\* the string literals of the program
Untitled == <<"U", "n", "t", "i", "t", "l", "e", "d">>
ConversationPrefix ==
    <<"C", "o", "n", "v", "e", "r", "s", "a", "t", "i", "o", "n", "_">>
UntitledConversation ==
    Untitled \o <<"_", "C", "o", "n", "v", "e", "r", "s", "a", "t", "i", "o", "n">>
Unknown == <<"U", "n", "k", "n", "o", "w", "n">>
MdExt == <<".", "m", "d">>

----------------------------------------------------------------------------
(* sanitize_filename                                                       *)

\* the character class of re.sub(r'[\\/*?:"<>|]', "", filename)
InvalidChars == {"\\", "/", "*", "?", ":", "\"", "<", ">", "|"}

\* sanitized[:100]
MaxNameLen == 100

RemoveInvalid(filename) == SelectSeq(filename, LAMBDA c : c \notin InvalidChars)

ReplaceSpaces(s) == [k \in 1..Len(s) |-> IF s[k] = " " THEN "_" ELSE s[k]]

\* sanitize_filename without its 'Untitled' fallback
sanitize_filename_no_fallback(filename) ==
    Take(Strip(ReplaceSpaces(RemoveInvalid(filename)), {".", " "}), MaxNameLen)

\* sanitize_filename without its [:100]
sanitize_filename_untruncated(filename) ==
    LET sanitized == Strip(ReplaceSpaces(RemoveInvalid(filename)), {".", " "})
    IN  IF sanitized # <<>> THEN sanitized ELSE Untitled

sanitize_filename(filename) ==
    LET sanitized == Strip(ReplaceSpaces(RemoveInvalid(filename)), {".", " "})
    IN  IF sanitized # <<>> THEN Take(sanitized, MaxNameLen) ELSE Untitled

----------------------------------------------------------------------------
(* JSON values, as json.load builds them, and the Python operations the    *)
(* program applies to them.  true/false and floats are not modelled.       *)

JNull == [t |-> "null"]
JNum(n) == [t |-> "num", n |-> n]
JStr(s) == [t |-> "str", s |-> s]
JList(l) == [t |-> "list", l |-> l]
\* d is a function from field names to JSON values
JDict(d) == [t |-> "dict", d |-> d]

IsStr(v) == v.t = "str"
IsList(v) == v.t = "list"
IsDict(v) == v.t = "dict"
IsNum(v) == v.t = "num"

\* the outcome of a Python call: a value, or an exception
Ok(v) == [ok |-> TRUE, v |-> v]
Raise(e) == [ok |-> FALSE, exc |-> e]

\* bool(v)
Truthy(v) ==
    CASE v.t = "null" -> FALSE
      [] v.t = "num" -> v.n # 0
      [] v.t = "str" -> v.s # <<>>
      [] v.t = "list" -> v.l # <<>>
      [] v.t = "dict" -> DOMAIN v.d # {}

\* the characters of the field names the program looks for
FieldChars(f) ==
    CASE f = "name" -> <<"n", "a", "m", "e">>
      [] f = "title" -> <<"t", "i", "t", "l", "e">>
      [] f = "conversation_title" ->
            <<"c", "o", "n", "v", "e", "r", "s", "a", "t", "i", "o", "n",
              "_", "t", "i", "t", "l", "e">>
      [] f = "subject" -> <<"s", "u", "b", "j", "e", "c", "t">>
      [] f = "chat_messages" ->
            <<"c", "h", "a", "t", "_", "m", "e", "s", "s", "a", "g", "e", "s">>
      [] f = "messages" -> <<"m", "e", "s", "s", "a", "g", "e", "s">>
      [] f = "conversation" ->
            <<"c", "o", "n", "v", "e", "r", "s", "a", "t", "i", "o", "n">>
      [] f = "history" -> <<"h", "i", "s", "t", "o", "r", "y">>
      [] f = "created_at" ->
            <<"c", "r", "e", "a", "t", "e", "d", "_", "a", "t">>
      [] f = "updated_at" ->
            <<"u", "p", "d", "a", "t", "e", "d", "_", "a", "t">>
      [] f = "text" -> <<"t", "e", "x", "t">>
      [] f = "content" -> <<"c", "o", "n", "t", "e", "n", "t">>
      [] f = "message" -> <<"m", "e", "s", "s", "a", "g", "e">>
      [] f = "body" -> <<"b", "o", "d", "y">>
      [] f = "sender" -> <<"s", "e", "n", "d", "e", "r">>
      [] f = "role" -> <<"r", "o", "l", "e">>
      [] f = "author" -> <<"a", "u", "t", "h", "o", "r">>
      [] f = "from" -> <<"f", "r", "o", "m">>
      [] f = "timestamp" -> <<"t", "i", "m", "e", "s", "t", "a", "m", "p">>
      [] f = "time" -> <<"t", "i", "m", "e">>
      [] f = "date" -> <<"d", "a", "t", "e">>
      [] f = "conversations" ->
            <<"c", "o", "n", "v", "e", "r", "s", "a", "t", "i", "o", "n", "s">>
      [] f = "chats" -> <<"c", "h", "a", "t", "s">>
      [] f = "data" -> <<"d", "a", "t", "a">>
      [] f = "items" -> <<"i", "t", "e", "m", "s">>

\* field in v: a key of a dict, an element of a list, a substring of a str;
\* TypeError for a value that is not a container
PyIn(f, v) ==
    CASE v.t = "dict" -> Ok(f \in DOMAIN v.d)
      [] v.t = "list" -> Ok(\E k \in 1..Len(v.l) : v.l[k] = JStr(FieldChars(f)))
      [] v.t = "str" -> Ok(IsSubstring(FieldChars(f), v.s))
      [] OTHER -> Raise("TypeError")

\* v[field] with a str subscript
PyGetItem(v, f) ==
    CASE v.t = "dict" -> IF f \in DOMAIN v.d THEN Ok(v.d[f]) ELSE Raise("KeyError")
      [] OTHER -> Raise("TypeError")

\* the keys of a dict in one fixed order (the insertion order of a dict is not
\* modelled: the inputs drawn give str() no dict of more than one key)
RECURSIVE KeySeq(_)
KeySeq(ks) ==
    IF ks = {} THEN <<>>
    ELSE LET k == CHOOSE x \in ks : TRUE IN <<k>> \o KeySeq(ks \ {k})

\* repr(s) of a str
Quote(s) ==
    LET hasSQ == \E k \in 1..Len(s) : s[k] = "'"
        hasDQ == \E k \in 1..Len(s) : s[k] = "\""
        q == IF hasSQ /\ ~hasDQ THEN "\"" ELSE "'"
        esc(c) == IF c = "\\" \/ c = q THEN <<"\\", c>> ELSE <<c>>
    IN  <<q>> \o Concat([k \in 1..Len(s) |-> esc(s[k])]) \o <<q>>

\* str(v), which is also what an f-string field gives
RECURSIVE PyStr(_)
PyRepr(v) == IF v.t = "str" THEN Quote(v.s) ELSE PyStr(v)
PyStr(v) ==
    CASE v.t = "null" -> <<"N", "o", "n", "e">>
      [] v.t = "num" -> IntToStr(v.n)
      [] v.t = "str" -> v.s
      [] v.t = "list" ->
            <<"[">> \o Join(<<",", " ">>, [k \in 1..Len(v.l) |-> PyRepr(v.l[k])])
                    \o <<"]">>
      [] v.t = "dict" ->
            LET ks == KeySeq(DOMAIN v.d)
            IN  <<"{">> \o Join(<<",", " ">>,
                     [k \in 1..Len(ks) |->
                        Quote(FieldChars(ks[k])) \o <<":", " ">> \o PyRepr(v.d[ks[k]])])
                    \o <<"}">>

----------------------------------------------------------------------------
(* extract_messages and extract_conversation_title                         *)

message_fields == <<"chat_messages", "messages", "conversation", "history">>
title_fields == <<"name", "title", "conversation_title", "subject">>

\* the for loop of extract_messages from its k-th field on, then the
\* isinstance(conversation, list) test; the value is a Python list
RECURSIVE ExtractMessagesFrom(_, _)
ExtractMessagesFrom(conversation, k) ==
    IF k > Len(message_fields)
    THEN IF IsList(conversation) THEN Ok(conversation.l) ELSE Ok(<<>>)
    ELSE LET field == message_fields[k]
             has == PyIn(field, conversation)
         IN  IF ~has.ok THEN has
             ELSE IF ~has.v THEN ExtractMessagesFrom(conversation, k + 1)
             ELSE LET got == PyGetItem(conversation, field)
                  IN  IF ~got.ok THEN got
                      ELSE IF IsList(got.v) THEN Ok(got.v.l)
                      ELSE ExtractMessagesFrom(conversation, k + 1)

extract_messages(conversation) == ExtractMessagesFrom(conversation, 1)

\* messages[0].get('text', messages[0].get('content', ''))[:50]
FirstMessageText(first) ==
    IF ~IsDict(first) THEN Raise("AttributeError")
    ELSE LET v == IF "text" \in DOMAIN first.d THEN first.d["text"]
                  ELSE IF "content" \in DOMAIN first.d THEN first.d["content"]
                  ELSE JStr(<<>>)
         IN  CASE v.t = "str" -> Ok(JStr(Take(v.s, 50)))
               [] v.t = "list" -> Ok(JList(Take(v.l, 50)))
               \* a dict, a number or null cannot be sliced (TypeError; a
               \* KeyError for a dict from Python 3.12 on)
               [] OTHER -> Raise("TypeError")

\* the fallback of extract_conversation_title, after its for loop
TitleFromMessages(conversation) ==
    LET messages == extract_messages(conversation)
    IN  IF ~messages.ok THEN messages
        ELSE IF messages.v = <<>> THEN Ok(JStr(UntitledConversation))
        ELSE LET first_message == FirstMessageText(messages.v[1])
             IN  IF ~first_message.ok THEN first_message
                 ELSE IF Truthy(first_message.v)
                      THEN Ok(JStr(ConversationPrefix \o PyStr(first_message.v)))
                      ELSE Ok(JStr(UntitledConversation))

\* the for loop of extract_conversation_title from its k-th field on
RECURSIVE ExtractTitleFrom(_, _)
ExtractTitleFrom(conversation, k) ==
    IF k > Len(title_fields) THEN TitleFromMessages(conversation)
    ELSE LET field == title_fields[k]
             has == PyIn(field, conversation)
         IN  IF ~has.ok THEN has
             ELSE IF ~has.v THEN ExtractTitleFrom(conversation, k + 1)
             ELSE LET got == PyGetItem(conversation, field)
                  IN  IF ~got.ok THEN got
                      ELSE IF Truthy(got.v) THEN Ok(got.v)
                      ELSE ExtractTitleFrom(conversation, k + 1)

\* the title is whatever value the field holds: a str only if the record
\* holds one
extract_conversation_title(conversation) == ExtractTitleFrom(conversation, 1)

----------------------------------------------------------------------------
(* format_message, of a message that is a dict                             *)

sender_fields == <<"sender", "role", "author", "from">>
text_fields == <<"text", "content", "message", "body">>
timestamp_fields == <<"timestamp", "created_at", "time", "date">>

\* the first field of fields that the message holds, or "" when it holds none
FirstPresent(fields, message) ==
    LET here == {k \in 1..Len(fields) : fields[k] \in DOMAIN message.d}
    IN  IF here = {} THEN ""
        ELSE fields[CHOOSE k \in here : \A m \in here : k <= m]

\* the parts a list-valued text contributes to text_parts
RECURSIVE TextParts(_)
TextParts(parts) ==
    IF parts = <<>> THEN <<>>
    ELSE LET part == Head(parts)
         IN  (IF IsDict(part) /\ "text" \in DOMAIN part.d THEN <<part.d["text"]>>
              ELSE IF IsStr(part) THEN <<part>>
              ELSE <<>>) \o TextParts(Tail(parts))

\* the text of the message: '\n'.join raises on a part that is not a str
MessageText(message) ==
    LET field == FirstPresent(text_fields, message)
    IN  IF field = "" THEN Ok(JStr(<<>>))
        ELSE LET text == message.d[field]
             IN  IF IsDict(text) /\ "text" \in DOMAIN text.d THEN Ok(text.d["text"])
                 ELSE IF IsList(text)
                 THEN LET text_parts == TextParts(text.l)
                      IN  IF \E k \in 1..Len(text_parts) : ~IsStr(text_parts[k])
                          THEN Raise("TypeError")
                          ELSE Ok(JStr(Join(<<"\n">>,
                                  [k \in 1..Len(text_parts) |-> text_parts[k].s])))
                 ELSE Ok(text)

\* datetime.fromtimestamp(n).strftime('%Y-%m-%d %H:%M:%S'): one token that
\* stands for the local date and time of epoch n (the time zone is the
\* machine's); every epoch the model's integers hold is in range
Strftime(n) == <<"<localtime>", ToString(n)>>

MessageTimestamp(message) ==
    LET field == FirstPresent(timestamp_fields, message)
    IN  IF field = "" THEN <<>>
        ELSE LET timestamp == message.d[field]
             IN  IF ~Truthy(timestamp) THEN <<>>
                 ELSE <<" ", "*", "(">>
                      \o (IF IsNum(timestamp) THEN Strftime(timestamp.n)
                          ELSE PyStr(timestamp))
                      \o <<")", "*">>

MessageSender(message) ==
    LET field == FirstPresent(sender_fields, message)
    IN  IF field = "" THEN Unknown ELSE Capitalize(PyStr(message.d[field]))

format_message(message) ==
    LET text == MessageText(message)
    IN  IF ~text.ok THEN text
        ELSE Ok(<<"*", "*">> \o MessageSender(message) \o <<":", "*", "*">>
                \o MessageTimestamp(message)
                \o <<"\n">> \o PyStr(text.v) \o <<"\n">>)

----------------------------------------------------------------------------
(* Paths                                                                   *)

\* the output_dir argument of the run
OutputDir == <<"o", "u", "t">>

LastIndexOf(c, p) ==
    LET at == {k \in 1..Len(p) : p[k] = c}
    IN  IF at = {} THEN 0 ELSE CHOOSE k \in at : \A m \in at : m <= k

\* os.path.join(a, b), on POSIX
PathJoin(a, b) ==
    IF b # <<>> /\ b[1] = "/" THEN b
    ELSE IF a = <<>> \/ a[Len(a)] = "/" THEN a \o b
    ELSE a \o <<"/">> \o b

\* os.path.splitext(p): the extension starts at the last dot of the last
\* component, unless only dots precede it there
Splitext(p) ==
    LET sepIndex == LastIndexOf("/", p)
        dotIndex == LastIndexOf(".", p)
    IN  IF dotIndex > sepIndex
           /\ \E k \in (sepIndex + 1)..(dotIndex - 1) : p[k] # "."
        THEN [base |-> SubSeq(p, 1, dotIndex - 1), ext |-> Drop(p, dotIndex)]
        ELSE [base |-> p, ext |-> <<>>]

\* a collision loop that never sees a file
os_path_exists_never(files, path) == FALSE

\* os.path.exists(md_filename)
os_path_exists(files, path) == path \in DOMAIN files

\* a collision loop that counts before it formats
NextCandidate_off_by_one(original, n) ==
    LET parts == Splitext(original)
    IN  parts.base \o <<"_">> \o IntToStr(n + 1) \o parts.ext

\* f"{base}_{counter}{ext}" of the collision loop
NextCandidate(original, n) ==
    LET parts == Splitext(original)
    IN  parts.base \o <<"_">> \o IntToStr(n) \o parts.ext

----------------------------------------------------------------------------
(* The conversation list of a parsed root                                  *)

wrapper_keys == <<"conversations", "chats", "data", "items">>

\* the for loop over the wrapper keys: the value of the first key that holds
\* a list (break), or [] when no key does
RECURSIVE WrappedFrom(_, _)
WrappedFrom(root, k) ==
    IF k > Len(wrapper_keys) THEN <<>>
    ELSE LET key == wrapper_keys[k]
         IN  IF key \in DOMAIN root.d /\ IsList(root.d[key]) THEN root.d[key].l
             ELSE WrappedFrom(root, k + 1)

\* a conversation list that keeps an empty wrapped list
conversation_list_keep_empty(root) ==
    IF IsList(root) THEN root.l
    ELSE IF IsDict(root)
    THEN IF \E k \in 1..Len(wrapper_keys) :
               wrapper_keys[k] \in DOMAIN root.d /\ IsList(root.d[wrapper_keys[k]])
         THEN WrappedFrom(root, 1) ELSE <<root>>
    ELSE <<>>

conversation_list(root) ==
    IF IsList(root) THEN root.l
    ELSE IF IsDict(root)
    THEN LET found == WrappedFrom(root, 1)
         IN  IF found = <<>> THEN <<root>> ELSE found
    ELSE <<>>

----------------------------------------------------------------------------
(* The writes of one transcript                                            *)

Write(kind, s) == [w |-> kind, s |-> s]

Placeholder ==
    <<"*", "N", "o", " ", "m", "e", "s", "s", "a", "g", "e", "s", " ",
      "f", "o", "u", "n", "d", " ", "i", "n", " ", "t", "h", "i", "s", " ",
      "c", "o", "n", "v", "e", "r", "s", "a", "t", "i", "o", "n", ".", "*", "\n">>

\* what the body of the with block does: the md_file.write calls made, and the
\* exception that ended them ("none" when the block ran to its end)
Done(writes) == [writes |-> writes, exc |-> "none"]
Failed(writes, e) == [writes |-> writes, exc |-> e]

\* md_file.write(f"# {title}\n\n")
HeadingWrite(t) == Write("heading", <<"#", " ">> \o PyStr(t) \o <<"\n", "\n">>)

\* lines 176-182
MetadataWrites(conversation) ==
    LET c == PyIn("created_at", conversation)
        u == PyIn("updated_at", conversation)
        head == <<Write("metadata", <<"#", "#", " ", "M", "e", "t", "a", "d", "a", "t", "a", "\n">>)>>
        rule == <<Write("rule", <<"\n", "-", "-", "-", "\n", "\n">>)>>
        cv == PyGetItem(conversation, "created_at")
        uv == PyGetItem(conversation, "updated_at")
    IN  IF ~c.ok THEN Failed(<<>>, c.exc)
        ELSE IF ~c.v /\ ~u.ok THEN Failed(<<>>, u.exc)
        ELSE IF ~c.v /\ ~u.v THEN Done(<<>>)
        ELSE IF c.v /\ ~cv.ok THEN Failed(head, cv.exc)
        ELSE LET created ==
                    IF c.v
                    THEN <<Write("created",
                             <<"-", " ", "C", "r", "e", "a", "t", "e", "d", ":", " ">>
                             \o PyStr(cv.v) \o <<"\n">>)>>
                    ELSE <<>>
             IN  IF ~u.ok THEN Failed(head \o created, u.exc)
                 ELSE IF u.v /\ ~uv.ok THEN Failed(head \o created, uv.exc)
                 ELSE LET updated ==
                            IF u.v
                            THEN <<Write("updated",
                                     <<"-", " ", "U", "p", "d", "a", "t", "e", "d", ":", " ">>
                                     \o PyStr(uv.v) \o <<"\n">>)>>
                            ELSE <<>>
                      IN  Done(head \o created \o updated \o rule)

\* the for loop over the messages: a message that is not a dict is passed over
RECURSIVE MessageWritesFrom(_, _)
MessageWritesFrom(messages, k) ==
    IF k > Len(messages) THEN Done(<<>>)
    ELSE LET message == messages[k]
         IN  IF ~IsDict(message) THEN MessageWritesFrom(messages, k + 1)
             ELSE LET formatted_message == format_message(message)
                  IN  IF ~formatted_message.ok THEN Failed(<<>>, formatted_message.exc)
                      ELSE LET rest == MessageWritesFrom(messages, k + 1)
                           IN  [writes |-> <<Write("message", formatted_message.v \o <<"\n">>)>>
                                           \o rest.writes,
                                exc |-> rest.exc]

\* a body without the placeholder of the else branch
BodyWrites_no_placeholder(conversation) ==
    LET messages == extract_messages(conversation)
    IN  IF ~messages.ok THEN Failed(<<>>, messages.exc)
        ELSE MessageWritesFrom(messages.v, 1)

\* lines 185-192
BodyWrites(conversation) ==
    LET messages == extract_messages(conversation)
    IN  IF ~messages.ok THEN Failed(<<>>, messages.exc)
        ELSE IF messages.v # <<>> THEN MessageWritesFrom(messages.v, 1)
        ELSE Done(<<Write("placeholder", Placeholder)>>)

\* lines 172-192
Transcript(conversation, t) ==
    LET meta == MetadataWrites(conversation)
        body == BodyWrites(conversation)
    IN  IF meta.exc # "none" THEN Failed(<<HeadingWrite(t)>> \o meta.writes, meta.exc)
        ELSE [writes |-> <<HeadingWrite(t)>> \o meta.writes \o body.writes,
              exc |-> body.exc]

----------------------------------------------------------------------------
(* The inputs drawn: conversation records of the shapes the program tells   *)
(* apart, the roots that hold them, and the files already in output_dir.    *)

StrA == JStr(<<"A">>)
LongTitle == JStr(Repeat("x", MaxNameLen) \o <<"y">>)

Msg1 == JDict([role |-> JStr(<<"u", "s", "e", "r">>), text |-> JStr(<<"H", "i">>)])
Msg2 == JDict([sender |-> JStr(<<"b", "O", "t">>),
               content |-> JList(<<JDict([text |-> StrA]), JStr(<<"B">>)>>),
               timestamp |-> JNum(1700000000)])
\* a text part that is not a str: '\n'.join raises
MsgBadPart == JDict([text |-> JList(<<JDict([text |-> JNum(1)])>>)])

\* a title and two messages
ConvA == JDict([name |-> StrA, chat_messages |-> JList(<<Msg1, Msg2>>)])
\* the same title again, no message field, a creation date
ConvA2 == JDict([title |-> StrA, created_at |-> JStr(<<"2", "4">>)])
\* no field at all
ConvEmpty == JDict(<<>>)
\* no title field: the title comes from the first message
ConvNoTitle ==
    JDict([messages |-> JList(<<JDict([content |-> JStr(<<"a", " ", "b", "?">>)])>>)])
\* a title that is not a str
ConvNumTitle == JDict([name |-> JNum(7)])
\* a record that is not a container
ConvScalar == JNum(5)
\* a title, and messages that are not dicts
ConvStrMsgs == JDict([name |-> JStr(<<"B">>), messages |-> JList(<<JStr(<<"h", "i">>)>>)])
\* no title, and a first message that is not a dict
ConvStrFirst == JDict([history |-> JList(<<JStr(<<"h", "i">>)>>)])
\* a title longer than MaxNameLen
ConvLong == JDict([subject |-> LongTitle])
\* a message whose text has a part that is not a str, after a good one
ConvBadPart == JDict([name |-> JStr(<<"C">>), messages |-> JList(<<Msg1, MsgBadPart>>)])
\* a record that is itself the list of messages
ConvList == JList(<<Msg1>>)
\* a title field that holds the generic fallback itself
ConvLiteral == JDict([conversation_title |-> JStr(UntitledConversation)])

Convs == {ConvA, ConvA2, ConvEmpty, ConvNoTitle, ConvNumTitle, ConvScalar,
          ConvStrMsgs, ConvStrFirst, ConvLong, ConvBadPart, ConvList, ConvLiteral}

\* the conversations put inside a wrapper object
WrappedConvs == {ConvA, ConvEmpty}

SeqsUpTo(S, n) == UNION {[1..k -> S] : k \in 0..n}

ListRoots == {JList(l) : l \in SeqsUpTo(Convs, MaxConvs)}

WrapperRoots ==
    UNION {{JDict([conversations |-> JList(l)]),
            JDict([chats |-> JList(l), items |-> JList(<<ConvA2>>)]),
            JDict([conversations |-> JStr(<<"x">>), data |-> JList(l)]),
            JDict([conversations |-> JList(<<>>), items |-> JList(l)]),
            JDict([items |-> JList(l), name |-> StrA])}
           : l \in SeqsUpTo(WrappedConvs, MaxConvs)}

ScalarRoots == {JNull, JNum(0), JStr(<<"x">>)}

\* a mapping root with no wrapper key is one of the conversation records
Roots == ListRoots \cup WrapperRoots \cup ScalarRoots \cup {c \in Convs : IsDict(c)}

Inputs ==
    {[kind |-> "missing"], [kind |-> "invalid_json"], [kind |-> "unreadable"]}
    \cup {[kind |-> "json", data |-> r] : r \in Roots}

\* the records whose titles collide, are overridden, are cut or are rewritten
\* by sanitize_filename, and one whose title cannot be sanitized
FairConvs == {ConvA, ConvA2, ConvEmpty, ConvNoTitle, ConvLong, ConvNumTitle}

FairInputs ==
    {[kind |-> "missing"]}
    \cup {[kind |-> "json", data |-> JList(l)] : l \in SeqsUpTo(FairConvs, MaxConvs)}

Preexisting == <<[w |-> "preexisting", s |-> <<>>]>>

\* the content of a file whose write failed: some part, which nothing reads,
\* of what the with block wrote before the failure
Torn == <<[w |-> "torn", s |-> <<>>]>>

InitialFiles ==
    {PathJoin(OutputDir, <<"A">> \o MdExt), PathJoin(OutputDir, <<"A", "_", "1">> \o MdExt)}

NoValue == JNull

----------------------------------------------------------------------------
(* convert_conversations_to_md                                             *)

\* print(...): one record per call
Say(m) == Append(out, m)

\* the state on entry, for an input file of the set inputs
InitWith(inputs) ==
    /\ pc = "start"
    /\ input_file \in inputs
    /\ \E present \in SUBSET InitialFiles :
          /\ fs = [p \in present |-> Preexisting]
          /\ dir_exists \in (IF present = {} THEN BOOLEAN ELSE {TRUE})
    /\ data = NoValue
    /\ conversations = <<>>
    /\ i = 0
    /\ title = NoValue
    /\ sanitized_title = <<>>
    /\ md_filename = <<>>
    /\ original_filename = <<>>
    /\ counter = 0
    /\ out = <<>>
    /\ opened = <<>>
    /\ exc = "none"

Init == InitWith(Inputs)

\* lines 114-116; os.makedirs may raise, and nothing catches it
EnsureOutputDir ==
    /\ pc = "start"
    /\ \/ /\ dir_exists
          /\ pc' = "load"
          /\ UNCHANGED <<dir_exists, out, exc>>
       \/ /\ ~dir_exists
          /\ dir_exists' = TRUE
          /\ out' = Say([msg |-> "created_directory"])
          /\ pc' = "load"
          /\ UNCHANGED exc
       \/ /\ ~dir_exists
          /\ pc' = "raised"
          /\ exc' = "OSError"
          /\ UNCHANGED <<dir_exists, out>>
    /\ UNCHANGED <<input_file, fs, data, conversations, i, title, sanitized_title,
                   md_filename, original_filename, counter, opened>>

\* a load whose last except clause does not return
load_result_fallthrough(file) ==
    CASE file.kind = "missing" ->
            [pc |-> "returned", said |-> <<[msg |-> "error_not_found"]>>]
      [] file.kind = "invalid_json" ->
            [pc |-> "returned",
             said |-> <<[msg |-> "error_invalid_json"], [msg |-> "json_error"]>>]
      [] file.kind = "unreadable" ->
            [pc |-> "extract", said |-> <<[msg |-> "error_reading_file"]>>]
      [] file.kind = "json" -> [pc |-> "extract", said |-> <<>>]

\* lines 118-130: what the try block around open() and json.load() leads to:
\* where the function goes on and what it prints
load_result(file) ==
    CASE file.kind = "missing" ->
            [pc |-> "returned", said |-> <<[msg |-> "error_not_found"]>>]
      [] file.kind = "invalid_json" ->
            [pc |-> "returned",
             said |-> <<[msg |-> "error_invalid_json"], [msg |-> "json_error"]>>]
      [] file.kind = "unreadable" ->
            [pc |-> "returned", said |-> <<[msg |-> "error_reading_file"]>>]
      [] file.kind = "json" -> [pc |-> "extract", said |-> <<>>]

LoadInput ==
    /\ pc = "load"
    /\ LET r == load_result(input_file)
       IN  /\ pc' = r.pc
           /\ out' = out \o r.said
           /\ data' = IF input_file.kind = "json" THEN input_file.data ELSE data
    /\ UNCHANGED <<input_file, dir_exists, fs, conversations, i, title,
                   sanitized_title, md_filename, original_filename, counter,
                   opened, exc>>

\* lines 132-150
ExtractConversations ==
    /\ pc = "extract"
    /\ conversations' = conversation_list(data)
    /\ IF conversations' = <<>>
       THEN /\ out' = Say([msg |-> "no_conversations"])
            /\ pc' = "returned"
       ELSE /\ out' = Say([msg |-> "found", n |-> Len(conversations')])
            /\ pc' = "for"
    /\ i' = 0
    /\ UNCHANGED <<input_file, dir_exists, fs, data, title, sanitized_title,
                   md_filename, original_filename, counter, opened, exc>>

\* an override that does not ask for a second conversation
NeedsOverride_single(t, n) == t = JStr(UntitledConversation)

\* title == "Untitled_Conversation" and len(conversations) > 1, line 156
NeedsOverride(t, n) == t = JStr(UntitledConversation) /\ n > 1

\* lines 155-157: the title of conversation k (0-based) of a list of n
ResolvedTitle(conversation, k, n) ==
    LET t == extract_conversation_title(conversation)
    IN  IF ~t.ok THEN t
        ELSE IF NeedsOverride(t.v, n)
        THEN Ok(JStr(ConversationPrefix \o IntToStr(k + 1)))
        ELSE t

\* lines 153-164: the head of the loop body; an exception here is outside the
\* try block and leaves the function
GenerateFilename ==
    /\ pc = "for"
    /\ i < Len(conversations)
    /\ LET t == ResolvedTitle(conversations[i + 1], i, Len(conversations))
       IN  IF ~t.ok
           THEN /\ pc' = "raised"
                /\ exc' = t.exc
                /\ UNCHANGED <<title, sanitized_title, md_filename,
                               original_filename, counter>>
           ELSE IF ~IsStr(t.v)
           \* re.sub of a value that is not a str
           THEN /\ pc' = "raised"
                /\ exc' = "TypeError"
                /\ title' = t.v
                /\ UNCHANGED <<sanitized_title, md_filename, original_filename,
                               counter>>
           ELSE /\ title' = t.v
                /\ sanitized_title' = sanitize_filename(t.v.s)
                /\ md_filename' = PathJoin(OutputDir, sanitized_title' \o MdExt)
                /\ original_filename' = md_filename'
                /\ counter' = 1
                /\ pc' = "while"
                /\ UNCHANGED exc
    /\ UNCHANGED <<input_file, dir_exists, fs, data, conversations, i, out, opened>>

\* lines 165-168: one turn of the while loop
RenameOnCollision ==
    /\ pc = "while"
    /\ os_path_exists(fs, md_filename)
    /\ md_filename' = NextCandidate(original_filename, counter)
    /\ counter' = counter + 1
    /\ UNCHANGED <<pc, input_file, dir_exists, fs, data, conversations, i, title,
                   sanitized_title, original_filename, out, opened, exc>>

\* lines 170-198: the try block.  open() may fail with OSError and create no
\* file; a write() (or the flush of close()) may fail with OSError and leave a
\* torn file; otherwise the file holds the writes of the with block.
WriteTranscript ==
    /\ pc = "while"
    /\ ~os_path_exists(fs, md_filename)
    /\ LET t == Transcript(conversations[i + 1], title)
           log == Append(opened, [path |-> md_filename,
                                  existed |-> md_filename \in DOMAIN fs])
           put(ws) == [p \in DOMAIN fs \cup {md_filename} |->
                         IF p = md_filename THEN ws ELSE fs[p]]
       IN  \/ /\ UNCHANGED <<fs, opened>>
              /\ out' = Say([msg |-> "error", index |-> i + 1, exc |-> "OSError"])
           \/ /\ fs' = put(Torn)
              /\ opened' = log
              /\ out' = Say([msg |-> "error", index |-> i + 1, exc |-> "OSError"])
           \/ /\ fs' = put(t.writes)
              /\ opened' = log
              /\ out' = IF t.exc = "none"
                        THEN Say([msg |-> "success", path |-> md_filename])
                        ELSE Say([msg |-> "error", index |-> i + 1, exc |-> t.exc])
    /\ i' = i + 1
    /\ pc' = "for"
    /\ UNCHANGED <<input_file, dir_exists, data, conversations, title,
                   sanitized_title, md_filename, original_filename, counter, exc>>

\* line 200
Finish ==
    /\ pc = "for"
    /\ i = Len(conversations)
    /\ out' = Say([msg |-> "complete"])
    /\ pc' = "returned"
    /\ UNCHANGED <<input_file, dir_exists, fs, data, conversations, i, title,
                   sanitized_title, md_filename, original_filename, counter,
                   opened, exc>>

Next ==
    \/ EnsureOutputDir
    \/ LoadInput
    \/ ExtractConversations
    \/ GenerateFilename
    \/ RenameOnCollision
    \/ WriteTranscript
    \/ Finish

Spec == Init /\ [][Next]_vars

\* The same run under fairness, for what the collision loop leads to.  The
\* run is one thread of control and nothing suspends it: a turn of the while
\* loop, or the try block after it, is taken whenever it is the next step.
\* The inputs are the conversation lists whose titles decide the paths.
FairInit == InitWith(FairInputs)

FairSpec ==
    FairInit /\ [][Next]_vars /\ WF_vars(RenameOnCollision) /\ WF_vars(WriteTranscript)

----------------------------------------------------------------------------
(* sanitize_filename on its own: a title is drawn, the function is applied *)

SanAlphabet == {"a", " ", ".", "/", "|"}

SanTitles ==
    SeqsUpTo(SanAlphabet, MaxTitleLen)
    \cup {Repeat("x", MaxNameLen),
          Repeat("x", MaxNameLen) \o <<"y">>,
          <<".">> \o Repeat("x", MaxNameLen) \o <<"y", " ">>,
          Repeat("*", MaxNameLen + 1),
          Repeat("x", MaxNameLen - 1) \o <<":", ".", "y">>}

SanInit ==
    /\ pc = "call_sanitize"
    /\ title \in {JStr(s) : s \in SanTitles}
    /\ sanitized_title = <<>>
    /\ input_file = [kind |-> "missing"]
    /\ fs = <<>>
    /\ dir_exists = TRUE
    /\ data = NoValue
    /\ conversations = <<>>
    /\ i = 0
    /\ md_filename = <<>>
    /\ original_filename = <<>>
    /\ counter = 0
    /\ out = <<>>
    /\ opened = <<>>
    /\ exc = "none"

SanitizeCall ==
    /\ pc = "call_sanitize"
    /\ sanitized_title' = sanitize_filename(title.s)
    /\ pc' = "sanitized"
    /\ UNCHANGED <<input_file, dir_exists, fs, data, conversations, i, title,
                   md_filename, original_filename, counter, out, opened, exc>>

SanSpec == SanInit /\ [][SanitizeCall]_vars

----------------------------------------------------------------------------
(* The properties                                                          *)

RunEnded == pc \in {"returned", "raised"}

Last(q) == q[Len(q)]

\* the name of a transcript path before its extension, without the directory
Stem(path) == SubSeq(path, Len(OutputDir) + 2, Len(path) - Len(MdExt))

HasInvalidChar(s) == \E k \in 1..Len(s) : s[k] \in {"\\", "/", "*", "?", ":", "\"", "<", ">", "|"}

\* _N, nothing for N = 0
Suffix(n) == IF n = 0 THEN <<>> ELSE <<"_">> \o IntToStr(n)

\* stem.md, stem_1.md, stem_2.md, ... in output_dir
Cand(stem, n) == OutputDir \o <<"/">> \o stem \o Suffix(n) \o MdExt

\* the first of them that is no file of the directory
FirstFree(stem, files) ==
    LET free == {n \in 0..Cardinality(DOMAIN files) : Cand(stem, n) \notin DOMAIN files}
    IN  Cand(stem, CHOOSE n \in free : \A m \in free : n <= m)

\* no open(), write() or makedirs() failed
NoIOFailure ==
    /\ exc # "OSError"
    /\ \A k \in 1..Len(out) : out[k].msg = "error" => out[k].exc # "OSError"

\* the conversation list has been worked out
Extracted == \E k \in 1..Len(out) : out[k].msg \in {"found", "no_conversations"}

\* the loop body of conversation i (1-based by now) has just created its file
\* and no write to it failed
Written ==
    /\ pc = "for"
    /\ i >= 1
    /\ md_filename \in DOMAIN fs
    /\ fs[md_filename] # Torn

\* ... and reported success
Succeeded == Written /\ Last(out).msg = "success"

\* C1: a run over a non-empty conversation list creates exactly one file per
\* conversation record, whatever the shape of the record (here: in every run
\* in which no file operation failed).
C1_OneFilePerConversation ==
    (RunEnded /\ conversations # <<>> /\ NoIOFailure)
        => Len(opened) = Len(conversations)

\* C2: the paths opened for writing are pairwise distinct, and none existed
\* in the output directory when it was opened.
C2_NoOverwrite ==
    \A k \in 1..Len(opened) :
        /\ ~opened[k].existed
        /\ \A j \in 1..(k - 1) : opened[j].path # opened[k].path

\* two conversations titled A converted into a directory that holds A.md and
\* A_1.md
C2_Witness ==
    /\ Len(opened) = 2
    /\ opened[1].path = Cand(<<"A">>, 2)
    /\ opened[2].path = Cand(<<"A">>, 3)

\* C3 as claimed: every stem written has at most 100 characters and none of
\* the reserved characters, collision suffix included.
C3_StemAtMost100 ==
    \A k \in 1..Len(opened) :
        /\ Len(Stem(opened[k].path)) <= 100
        /\ ~HasInvalidChar(Stem(opened[k].path))

\* C3 as amended: every stem written has none of the reserved characters and
\* is a name of at most 100 characters, followed by _N when a collision
\* suffix was added.
C3_StemAtMost100BeforeSuffix ==
    \A k \in 1..Len(opened) :
        LET stem == Stem(opened[k].path)
        IN  /\ ~HasInvalidChar(stem)
            /\ \E n \in 0..Cardinality(DOMAIN fs) :
                  /\ Len(stem) - Len(Suffix(n)) <= 100
                  /\ Len(stem) >= Len(Suffix(n))
                  /\ Drop(stem, Len(stem) - Len(Suffix(n)) + 1) = Suffix(n)

\* a stem of 100 characters that took a collision suffix
C3_Witness ==
    \E k \in 1..Len(opened) :
        /\ Len(Stem(opened[k].path)) = 102
        /\ Take(Stem(opened[k].path), 100) = Repeat("x", 100)

\* C4: sanitize_filename returns a string with none of the reserved
\* characters and at most 100 characters, never the empty string, and
\* "Untitled" when removal and trimming leave nothing.
C4_SanitizeSafe ==
    pc = "sanitized" =>
        /\ ~HasInvalidChar(sanitized_title)
        /\ Len(sanitized_title) <= 100
        /\ sanitized_title # <<>>
        /\ (\A k \in 1..Len(title.s) :
               title.s[k] \in {"\\", "/", "*", "?", ":", "\"", "<", ">", "|", "."})
              => sanitized_title = Untitled

\* a title of more than 100 characters, cut to 100
C4_Witness ==
    /\ pc = "sanitized"
    /\ Len(title.s) > 100
    /\ Len(sanitized_title) = 100

\* C5: a failure while processing a conversation is reported with its 1-based
\* index and does not stop the run: every conversation gets its report and
\* the completion message is reached.
C5_FailureIsolated ==
    (RunEnded /\ conversations # <<>>) =>
        /\ pc = "returned"
        /\ i = Len(conversations)
        /\ Last(out).msg = "complete"
        /\ LET found == CHOOSE k \in 1..Len(out) : out[k].msg = "found"
           IN  /\ Len(out) = found + Len(conversations) + 1
               /\ \A k \in 1..Len(conversations) :
                     \/ out[found + k].msg = "success"
                     \/ out[found + k].msg = "error" /\ out[found + k].index = k

\* C6: when loading the input fails, the error is reported and the function
\* returns: it does not raise, the conversation loop is not entered, and no
\* file is created or modified.
C6_LoadFailureStops ==
    [][input_file.kind # "json" =>
          /\ fs' = fs
          /\ opened' = opened
          /\ pc' \notin {"extract", "for", "while"}
          /\ pc = "load" => (pc' = "returned" /\ exc' = "none" /\ Len(out') > Len(out))
      ]_vars

\* malformed JSON, reported
C6_Witness ==
    /\ pc = "returned"
    /\ input_file.kind = "invalid_json"
    /\ out # <<>>
    /\ Last(out).msg = "json_error"

\* the wrapper keys of a mapping root that hold a sequence, by position
SeqKeys(root) ==
    {k \in 1..4 :
        LET key == <<"conversations", "chats", "data", "items">>[k]
        IN  key \in DOMAIN root.d /\ root.d[key].t = "list"}

\* the value of the first of them
FirstSeq(root) ==
    LET k == CHOOSE x \in SeqKeys(root) : \A y \in SeqKeys(root) : x <= y
    IN  root.d[<<"conversations", "chats", "data", "items">>[k]].l

NothingConverted == Last(out).msg = "no_conversations" /\ pc = "returned" /\ opened = <<>>

C8_FirstFreePath ==
    /\ [][opened' # opened =>
            Last(opened').path = FirstFree(sanitized_title, fs)]_vars
    /\ (pc = "while") ~> (pc = "for")

\* the same title twice, into a directory with no file of that stem:
\* A.md, then A_1.md
C8_Witness ==
    /\ Len(opened) = 2
    /\ opened[1].path = Cand(<<"A">>, 0)
    /\ opened[2].path = Cand(<<"A">>, 1)

\* what extract_conversation_title gives for conversation k (1-based)
PreOverride(k) == extract_conversation_title(conversations[k]).v

Heading(t) == [w |-> "heading", s |-> <<"#", " ">> \o t \o <<"\n", "\n">>]

\* C9 as claimed: the heading of each file shows the title before the
\* override.
C9_HeadingBeforeOverride ==
    Written => fs[md_filename][1] = Heading(PreOverride(i).s)

\* C9 as amended: the heading shows the title after the override: with more
\* than one conversation a title "Untitled_Conversation" becomes
\* Conversation_<index> in the heading and in the file name alike; with one
\* conversation both keep "Untitled_Conversation".
C9_HeadingAfterOverride ==
    Written =>
        LET pre == PreOverride(i)
            generic == pre = JStr(UntitledConversation)
            numbered == ConversationPrefix \o IntToStr(i)
        IN  IF generic /\ Len(conversations) > 1
            THEN /\ fs[md_filename][1] = Heading(numbered)
                 /\ original_filename = Cand(numbered, 0)
            ELSE /\ fs[md_filename][1] = Heading(pre.s)
                 /\ generic => original_filename = Cand(UntitledConversation, 0)

\* the second of two records without a title
C9_Witness ==
    /\ Written
    /\ i = 2
    /\ PreOverride(2) = JStr(UntitledConversation)
    /\ fs[md_filename][1] = Heading(ConversationPrefix \o <<"2">>)
    /\ Stem(md_filename) = ConversationPrefix \o <<"2">>

\* the message blocks and the placeholder of a file
Body(path) == SelectSeq(fs[path], LAMBDA x : x.w \in {"message", "placeholder"})

\* the writes of a file end with its body
BodyIsLast(path) ==
    SubSeq(fs[path], Len(fs[path]) - Len(Body(path)) + 1, Len(fs[path])) = Body(path)

Block(message) == [w |-> "message", s |-> format_message(message).v \o <<"\n">>]

\* C10 as claimed: a written file holds one formatted block per element of
\* the extracted message list, in order, or the placeholder when the list is
\* empty, and never neither.
C10_BlockPerMessage ==
    Succeeded =>
        LET messages == extract_messages(conversations[i]).v
            body == Body(md_filename)
        IN  /\ BodyIsLast(md_filename)
            /\ body # <<>>
            /\ IF messages = <<>> THEN body = <<[w |-> "placeholder", s |-> Placeholder]>>
               ELSE /\ Len(body) = Len(messages)
                    /\ \A k \in 1..Len(messages) : body[k] = Block(messages[k])

\* C10 as amended: a file written without error holds one formatted block per
\* element of the message list that is a mapping, in order (the other
\* elements give no block), or the placeholder when the list is empty.
C10_BlockPerMapping ==
    Succeeded =>
        LET messages == extract_messages(conversations[i]).v
            mappings == SelectSeq(messages, LAMBDA m : m.t = "dict")
            body == Body(md_filename)
        IN  /\ BodyIsLast(md_filename)
            /\ IF messages = <<>> THEN body = <<[w |-> "placeholder", s |-> Placeholder]>>
               ELSE /\ Len(body) = Len(mappings)
                    /\ \A k \in 1..Len(mappings) : body[k] = Block(mappings[k])

\* a file with neither: its one message is a string
C10_Witness ==
    /\ Succeeded
    /\ extract_messages(conversations[i]).v # <<>>
    /\ Body(md_filename) = <<>>

====
